---- MODULE Spec2Model ----
(***************************************************************************)
(* sparrow-investor-intake: the Record Upserter (api/save_to_notion.js,    *)
(* first handler) and the Event Normalizer (api/webhook.js) as a state     *)
(* machine over the external Notion store.                                 *)
(*                                                                         *)
(* A JavaScript object is a function from its keys to their values: an     *)
(* absent key is a key outside DOMAIN.  A string that the code takes apart *)
(* or puts together (names, addresses, amounts typed as text) is a         *)
(* sequence of chunks; the other strings are TLA+ strings.                 *)
(***************************************************************************)
EXTENDS Integers, Sequences, FiniteSets, TLC

VARIABLES
    store,          \* the Notion database: page id (1..Len) -> property bag
    pc,             \* per upserter invocation: where the handler stands
    method,         \* per invocation: the request's HTTP method ("": none)
    body,           \* per invocation: the destructured request body
    searchResults,  \* per invocation: what databases.query returned
    existingEntry,  \* per invocation: NoEntry or the matched page
    matchedBy,      \* per invocation: "null", "email" or "phone"
    lookup,         \* per invocation: "none", "hit", "miss" or "threw"
    calls,          \* per invocation: the store calls issued so far
    res,            \* per invocation: the HTTP response (status 0: none yet)
    caller,         \* per invocation: "form" or "webhook"
    inflight,       \* HTTP requests sent by clients and not yet received
    wpc,            \* the webhook handler: where it stands
    wmethod,        \* the webhook request's HTTP method ("": none)
    wreq,           \* the webhook body being handled
    wcalls,         \* the bodies the handler has posted to the upserter
    fetchReq,       \* the webhook's POST to /api/save_to_notion, in flight
    fetchRes,       \* the upserter's answer to that POST, in flight
    wres            \* the webhook handler's HTTP response

vars == <<store, pc, method, body, searchResults, existingEntry, matchedBy,
          lookup, calls, res, caller, inflight, wpc, wmethod, wreq, wcalls,
          fetchReq, fetchRes, wres>>

upserterVars == <<pc, method, body, searchResults, existingEntry, matchedBy,
                  lookup, calls, res, caller>>
webhookVars == <<wpc, wmethod, wreq, wcalls, fetchReq, fetchRes, wres>>

---------------------------------------------------------------------------
(* Bounds *)

\* The store accepts no further page once it holds this many.
MaxPages == 2
\* Webhook amounts range over -MaxAmount..MaxAmount.
MaxAmount == 2

\* Concurrent invocations of the upserter (serverless instances).
Invocations == {"inv1", "inv2"}

---------------------------------------------------------------------------
(* JavaScript objects *)

EmptyObj == [k \in {} |-> 0]

Has(obj, k) == k \in DOMAIN obj

Put(obj, k, v) == (k :> v) @@ obj

PutIf(cond, obj, k, v) == IF cond THEN Put(obj, k, v) ELSE obj

\* Object.assign / a PATCH of properties: the keys of patch win.
Merge(obj, patch) == patch @@ obj

Restrict(obj, keys) == [k \in (DOMAIN obj) \cap keys |-> obj[k]]

\* Truthiness, by the type of the value under the key.
TruthyStr(obj, k) == Has(obj, k) /\ obj[k] # ""
TruthySeq(obj, k) == Has(obj, k) /\ obj[k] # <<>>
TruthyBool(obj, k) == Has(obj, k) /\ obj[k] = TRUE
TruthyNum(obj, k) == Has(obj, k) /\ obj[k] # 0
TruthyId(obj, k) == Has(obj, k) /\ obj[k] # 0

\* x || '' for a chunked string.
SeqOrEmpty(obj, k) == IF TruthySeq(obj, k) THEN obj[k] ELSE <<>>

\* x || '' for a plain string.
StrOrEmpty(obj, k) == IF TruthyStr(obj, k) THEN obj[k] ELSE ""

---------------------------------------------------------------------------
(* Strings the code takes apart *)

Blank == " "

RECURSIVE TrimLeft(_)
TrimLeft(s) ==
    IF s # <<>> /\ Head(s) = Blank THEN TrimLeft(Tail(s)) ELSE s

RECURSIVE TrimRight(_)
TrimRight(s) ==
    IF s # <<>> /\ s[Len(s)] = Blank
    THEN TrimRight(SubSeq(s, 1, Len(s) - 1))
    ELSE s

\* String.prototype.trim
Trim(s) == TrimRight(TrimLeft(s))

NoNameProvided == <<"No name provided">>

\* `${first_name || ''} ${last_name || ''}`.trim() || 'No name provided'
NameContent(b) ==
    LET full == Trim(SeqOrEmpty(b, "first_name") \o <<Blank>>
                     \o SeqOrEmpty(b, "last_name"))
    IN  IF full # <<>> THEN full ELSE NoNameProvided

Digits == {"0", "1", "2", "3", "4", "5", "6", "7", "8", "9"}

DigitVal(c) ==
    CASE c = "0" -> 0 [] c = "1" -> 1 [] c = "2" -> 2 [] c = "3" -> 3
      [] c = "4" -> 4 [] c = "5" -> 5 [] c = "6" -> 6 [] c = "7" -> 7
      [] c = "8" -> 8 [] c = "9" -> 9

RECURSIVE DigitPrefix(_)
DigitPrefix(s) ==
    IF s # <<>> /\ Head(s) \in Digits
    THEN <<Head(s)>> \o DigitPrefix(Tail(s))
    ELSE <<>>

RECURSIVE DecimalValue(_)
DecimalValue(ds) ==
    IF ds = <<>> THEN 0
    ELSE 10 * DecimalValue(SubSeq(ds, 1, Len(ds) - 1)) + DigitVal(ds[Len(ds)])

NaN == [kind |-> "nan"]
Num(n) == [kind |-> "num", n |-> n]
Str(s) == [kind |-> "str", s |-> s]

\* parseFloat of a number or of a text of digits and letters: the leading
\* digits, NaN when there are none.
ParseFloat(v) ==
    IF v.kind = "num" THEN v
    ELSE LET ds == DigitPrefix(TrimLeft(v.s))
         IN  IF ds = <<>> THEN NaN ELSE Num(DecimalValue(ds))

\* Truthiness of an amount: 0 and '' are falsy.
TruthyAmount(obj, k) ==
    Has(obj, k) /\ obj[k] # Num(0) /\ obj[k] # Str(<<>>)

RECURSIVE JoinComma(_)
\* Array.prototype.join(', ')
JoinComma(parts) ==
    IF Len(parts) <= 1 THEN parts
    ELSE <<Head(parts), ", ">> \o JoinComma(Tail(parts))

---------------------------------------------------------------------------
(* The Record Upserter: api/save_to_notion.js, first handler *)

\* The keys the handler destructures from req.body; any other key is dropped.
UpserterKeys ==
    {"first_name", "last_name", "phone_number", "email",
     "street_address", "unit2", "city", "region", "postal_code", "country",
     "investment_amount", "is_accredited",
     "entry_id", "update_existing",
     "utm_source", "utm_medium", "utm_campaign", "utm_content", "utm_term",
     "entered_funnel", "checkout2_started", "investor_funded_status",
     "investor_deck_downloaded_ecf26",
     "marketing_consent", "sms_consent",
     "investor_state", "ac_sync_status", "tags"}

Destructure(reqBody) == Restrict(reqBody, UpserterKeys)

\* Mutant: only an undefined field counts as missing ('' passes).
ContactMissingUndefinedOnly(b) ==
    ~Has(b, "email") /\ ~Has(b, "phone_number")

\* if (!email && !phone_number) return 400
ContactMissing(b) == ~TruthyStr(b, "email") /\ ~TruthyStr(b, "phone_number")

\* Mutant: the lookup guard forgets the explicit identifier.
WantsLookupIgnoringId(b) == TruthyBool(b, "update_existing")

\* if (update_existing && !entry_id)
WantsLookup(b) == TruthyBool(b, "update_existing") /\ ~TruthyId(b, "entry_id")

\* The filters array and the filter handed to databases.query.
Filters(b) ==
    (IF TruthyStr(b, "email")
     THEN <<[property |-> "Email", equals |-> b["email"]]>> ELSE <<>>)
    \o
    (IF TruthyStr(b, "phone_number")
     THEN <<[property |-> "Phone", equals |-> b["phone_number"]]>> ELSE <<>>)

\* filters[0] of an empty array is undefined: a query without a filter.
NoFilter == [property |-> "undefined"]

QueryFilter(b) ==
    IF Len(Filters(b)) > 1 THEN [or |-> Filters(b)]
    ELSE IF Len(Filters(b)) = 1 THEN Filters(b)[1] ELSE NoFilter

AddressKeys ==
    <<"street_address", "unit2", "city", "region", "postal_code", "country">>

\* [street_address, ..., country].filter(Boolean)
AddressParts(b) ==
    LET F[n \in 0..Len(AddressKeys)] ==
            IF n = 0 THEN <<>>
            ELSE IF TruthyStr(b, AddressKeys[n])
                 THEN Append(F[n - 1], b[AddressKeys[n]])
                 ELSE F[n - 1]
    IN  F[Len(AddressKeys)]

NowStamp == "now"
GroupId == "2e110ef8d70d80aa872fc31246ca1f85"

RichText(s) == [rich_text |-> s]
Checkbox(v) == [checkbox |-> v]
Select(v) == [select |-> v]

\* Name is part of every property set.
BaseProperties(b) == Put(EmptyObj, "Name", [title |-> NameContent(b)])

ContactProperties(b, p) ==
    LET p1 == PutIf(TruthyStr(b, "email"), p, "Email",
                    [email |-> b["email"]])
    IN  PutIf(TruthyStr(b, "phone_number"), p1, "Phone",
              [phone_number |-> b["phone_number"]])

AddressProperties(b, p) ==
    PutIf((\E n \in 1..Len(AddressKeys) : TruthyStr(b, AddressKeys[n]))
             /\ Len(AddressParts(b)) > 0,
          p, "Address", RichText(JoinComma(AddressParts(b))))

\* Mutant: the amount is written whenever the key is present, 0 and ''
\* included.
InvestmentPropertiesWhenPresent(b, p) ==
    LET p1 == PutIf(Has(b, "investment_amount"), p,
                    "Investment Amount",
                    [number |-> ParseFloat(b["investment_amount"])])
    IN  PutIf(Has(b, "is_accredited"), p1, "Accredited Investor",
              Checkbox(b["is_accredited"]))

InvestmentProperties(b, p) ==
    LET p1 == PutIf(TruthyAmount(b, "investment_amount"), p,
                    "Investment Amount",
                    [number |-> ParseFloat(b["investment_amount"])])
    IN  PutIf(Has(b, "is_accredited"), p1, "Accredited Investor",
              Checkbox(b["is_accredited"]))

UtmProperties(b, p) ==
    LET p1 == PutIf(TruthyStr(b, "utm_source"), p, "UTM Source",
                    RichText(b["utm_source"]))
        p2 == PutIf(TruthyStr(b, "utm_medium"), p1, "UTM Medium",
                    RichText(b["utm_medium"]))
        p3 == PutIf(TruthyStr(b, "utm_campaign"), p2, "UTM Campaign",
                    RichText(b["utm_campaign"]))
        p4 == PutIf(TruthyStr(b, "utm_content"), p3, "UTM Content",
                    RichText(b["utm_content"]))
    IN  PutIf(TruthyStr(b, "utm_term"), p4, "UTM Term",
              RichText(b["utm_term"]))

\* Mutant: the funded checkbox is written on every request, false when the
\* key is absent.
TriggerPropertiesDefaultFalse(b, p) ==
    LET p1 == PutIf(Has(b, "entered_funnel"), p,
                    "status: entered_funnel_ecf26",
                    Checkbox(b["entered_funnel"]))
        p2 == PutIf(Has(b, "checkout2_started"), p1,
                    "action: checkout2_started_ecf26",
                    Checkbox(b["checkout2_started"]))
        p3 == Put(p2, "investor_funded_status_ecf26",
                  Checkbox(TruthyBool(b, "investor_funded_status")))
    IN  PutIf(Has(b, "investor_deck_downloaded_ecf26"), p3,
              "status: entered_funnel_pitch_ecf26",
              Checkbox(b["investor_deck_downloaded_ecf26"]))

\* Written whenever the key is present (!== undefined), true or false.
TriggerProperties(b, p) ==
    LET p1 == PutIf(Has(b, "entered_funnel"), p,
                    "status: entered_funnel_ecf26",
                    Checkbox(b["entered_funnel"]))
        p2 == PutIf(Has(b, "checkout2_started"), p1,
                    "action: checkout2_started_ecf26",
                    Checkbox(b["checkout2_started"]))
        p3 == PutIf(Has(b, "investor_funded_status"), p2,
                    "investor_funded_status_ecf26",
                    Checkbox(b["investor_funded_status"]))
    IN  PutIf(Has(b, "investor_deck_downloaded_ecf26"), p3,
              "status: entered_funnel_pitch_ecf26",
              Checkbox(b["investor_deck_downloaded_ecf26"]))

ConsentProperties(b, p) ==
    LET p1 == PutIf(Has(b, "marketing_consent"), p, "Marketing Consent",
                    Checkbox(b["marketing_consent"]))
    IN  PutIf(Has(b, "sms_consent"), p1, "SMS Consent",
              Checkbox(b["sms_consent"]))

IntegrationProperties(b, p) ==
    LET p1 == PutIf(TruthyStr(b, "investor_state"), p,
                    "investor_state_ecf26", Select(b["investor_state"]))
        p2 == PutIf(TruthyStr(b, "ac_sync_status"), p1, "AC Sync Status",
                    Select(b["ac_sync_status"]))
    IN  PutIf(TruthySeq(b, "tags"), p2, "Tags",
              [multi_select |-> b["tags"]])

\* const targetEntryId = existingEntry?.id || entry_id   (0: none)
TargetEntryId(b, entry) ==
    IF entry.id # 0 THEN entry.id
    ELSE IF TruthyId(b, "entry_id") THEN b["entry_id"] ELSE 0

\* Mutant: Created At is stamped on every write.
StampPropertiesAlways(target, p) ==
    LET p1 == Put(p, "Created At", [date |-> NowStamp])
        p2 == Put(p1, "Last Updated", [date |-> NowStamp])
    IN  Put(p2, "Group", [relation |-> <<GroupId>>])

\* Created At only without a target; Last Updated and Group always.
StampProperties(target, p) ==
    LET p1 == PutIf(target = 0, p, "Created At", [date |-> NowStamp])
        p2 == Put(p1, "Last Updated", [date |-> NowStamp])
    IN  Put(p2, "Group", [relation |-> <<GroupId>>])

\* The properties object as it stands at the store call.
BuildProperties(b, target) ==
    StampProperties(target,
      IntegrationProperties(b,
        ConsentProperties(b,
          TriggerProperties(b,
            UtmProperties(b,
              InvestmentProperties(b,
                AddressProperties(b,
                  ContactProperties(b, BaseProperties(b)))))))))

\* The create-or-update call the handler issues.
WriteCall(b, entry) ==
    LET target == TargetEntryId(b, entry)
    IN  IF target # 0
        THEN [op |-> "update", page_id |-> target,
              properties |-> BuildProperties(b, target)]
        ELSE [op |-> "create", properties |-> BuildProperties(b, target)]

---------------------------------------------------------------------------
(* The Notion store, as the handler's calls see it *)

NoEntry == [id |-> 0]

PageIds == 1..Len(store)

Page(id) == [id |-> id, properties |-> store[id]]

\* One equality filter: the page's property of that name holds the value.
MatchesOne(props, f) ==
    IF f.property = "Email"
    THEN Has(props, "Email") /\ props["Email"].email = f.equals
    ELSE IF f.property = "Phone"
    THEN Has(props, "Phone") /\ props["Phone"].phone_number = f.equals
    ELSE TRUE

\* databases.query's filter: one equality, or a disjunction of them.
Matches(props, filter) ==
    IF Has(filter, "or")
    THEN \E n \in 1..Len(filter["or"]) : MatchesOne(props, filter["or"][n])
    ELSE MatchesOne(props, filter)

MatchingIds(filter) == {id \in PageIds : Matches(store[id], filter)}

\* The orders in which the store may return a set of pages.
Orderings(ids) ==
    {s \in [1..Cardinality(ids) -> ids] :
        \A m, n \in 1..Cardinality(ids) : m # n => s[m] # s[n]}

\* pages.update: the properties sent replace those of the same name; the
\* page's other properties stay.
UpdatePage(id, properties) ==
    [store EXCEPT ![id] = Merge(store[id], properties)]

\* Mutant: a store that keeps one page per email.
CreatePageUniqueEmail(properties) ==
    IF \E id \in PageIds :
          /\ Has(properties, "Email") /\ Has(store[id], "Email")
          /\ store[id]["Email"] = properties["Email"]
    THEN store
    ELSE Append(store, properties)

\* pages.create: a new page with a store-assigned id.
CreatePage(properties) == Append(store, properties)

---------------------------------------------------------------------------
(* The handler, one action per stretch between two awaits *)

NoRes == [status |-> 0]

\* Mutant: the tag names the email whenever the request supplied one.
MatchedBySuppliedField(b, entry) ==
    IF TruthyStr(b, "email") THEN "email" ELSE "phone"

\* props.Email?.email === email, else props.Phone?.phone_number === phone
MatchedBy(b, entry) ==
    IF Has(b, "email") /\ Has(entry.properties, "Email")
       /\ entry.properties["Email"].email = b["email"]
    THEN "email"
    ELSE IF Has(b, "phone_number") /\ Has(entry.properties, "Phone")
            /\ entry.properties["Phone"].phone_number = b["phone_number"]
         THEN "phone"
         ELSE "null"

\* Mutant: the last result is taken for the match.
LastResult(results) ==
    IF Len(results) > 0 THEN results[Len(results)] ELSE NoEntry

\* existingEntry = searchResults.results[0], when there is one.
FirstResult(results) == IF Len(results) > 0 THEN results[1] ELSE NoEntry

\* Lines 138-316/327: build the properties and issue the store call.
Dispatch(i, b, entry) ==
    /\ calls' = [calls EXCEPT ![i] = Append(@, WriteCall(b, entry))]
    /\ pc' = [pc EXCEPT ![i] = "writing"]

\* The handler returns a response without a further await.
Finish(i, response) ==
    /\ res' = [res EXCEPT ![i] = response]
    /\ pc' = [pc EXCEPT ![i] = "done"]

\* Lines 16-117: a request arrives; the handler runs to its first await
\* (databases.query, or the store write) or to an early return.
Receive(i, m, reqBody, from) ==
    LET b == Destructure(reqBody) IN
    /\ pc[i] = "idle"
    /\ caller' = [caller EXCEPT ![i] = from]
    /\ method' = [method EXCEPT ![i] = m]
    /\ UNCHANGED <<store, searchResults, existingEntry, matchedBy, lookup>>
    /\ IF m = "OPTIONS"
       THEN Finish(i, [status |-> 200]) /\ UNCHANGED <<body, calls>>
       ELSE IF m # "POST"
       THEN Finish(i, [status |-> 405, error |-> "Method not allowed. Use POST."])
            /\ UNCHANGED <<body, calls>>
       ELSE /\ body' = [body EXCEPT ![i] = b]
            /\ IF ContactMissing(b)
               THEN Finish(i, [status |-> 400, error |-> "Contact method required"])
                    /\ UNCHANGED calls
               ELSE IF WantsLookup(b)
               THEN /\ calls' = [calls EXCEPT ![i] =
                                   <<[op |-> "query", filter |-> QueryFilter(b)]>>]
                    /\ pc' = [pc EXCEPT ![i] = "querying"]
                    /\ UNCHANGED res
               ELSE Dispatch(i, b, NoEntry) /\ UNCHANGED res

\* Lines 112-131, then on to the store write: the query answers.
QueryReturns(i) ==
    /\ pc[i] = "querying"
    /\ \E order \in Orderings(MatchingIds(calls[i][1].filter)) :
         LET results == [n \in DOMAIN order |-> Page(order[n])]
             entry == FirstResult(results)
         IN  /\ searchResults' = [searchResults EXCEPT ![i] = results]
             /\ existingEntry' = [existingEntry EXCEPT ![i] = entry]
             /\ matchedBy' = [matchedBy EXCEPT ![i] =
                                IF entry.id # 0 THEN MatchedBy(body[i], entry)
                                ELSE "null"]
             /\ lookup' = [lookup EXCEPT ![i] =
                             IF entry.id # 0 THEN "hit" ELSE "miss"]
             /\ Dispatch(i, body[i], entry)
    /\ UNCHANGED <<store, method, body, res, caller>>
    /\ UNCHANGED <<inflight, webhookVars>>

\* Mutant: a failed lookup aborts the request.
QueryThrowsAborts(i) ==
    /\ pc[i] = "querying"
    /\ lookup' = [lookup EXCEPT ![i] = "threw"]
    /\ Finish(i, [status |-> 500, error |-> "Failed to save to Notion"])
    /\ UNCHANGED <<store, method, body, searchResults, existingEntry,
                   matchedBy, calls, caller>>
    /\ UNCHANGED <<inflight, webhookVars>>

\* Lines 132-135: the query throws; the catch logs and the handler goes on.
QueryThrows(i) ==
    /\ pc[i] = "querying"
    /\ lookup' = [lookup EXCEPT ![i] = "threw"]
    /\ Dispatch(i, body[i], NoEntry)
    /\ UNCHANGED <<store, method, body, searchResults, existingEntry,
                   matchedBy, res, caller>>
    /\ UNCHANGED <<inflight, webhookVars>>

PendingWrite(i) == calls[i][Len(calls[i])]

\* Lines 313-339: the store performs the write and the handler answers 200.
\* An update of a page the store does not hold is refused by the store; so
\* is a create once the store holds MaxPages pages.
WriteReturns(i) ==
    LET call == PendingWrite(i) IN
    /\ pc[i] = "writing"
    /\ IF call.op = "update"
       THEN /\ call.page_id \in PageIds
            /\ store' = UpdatePage(call.page_id, call.properties)
            /\ Finish(i, [status |-> 200, action |-> "updated",
                          entry_id |-> call.page_id,
                          matched_by |-> matchedBy[i]])
       ELSE /\ Len(store) < MaxPages
            /\ store' = CreatePage(call.properties)
            /\ Finish(i, [status |-> 200, action |-> "created",
                          entry_id |-> Len(store) + 1])
    /\ UNCHANGED <<method, body, searchResults, existingEntry, matchedBy,
                   lookup, calls, caller>>
    /\ UNCHANGED <<inflight, webhookVars>>

\* Lines 342-349: the store call throws; the handler answers 500.
WriteThrows(i) ==
    /\ pc[i] = "writing"
    /\ Finish(i, [status |-> 500, error |-> "Failed to save to Notion"])
    /\ UNCHANGED <<store, method, body, searchResults, existingEntry,
                   matchedBy, lookup, calls, caller>>
    /\ UNCHANGED <<inflight, webhookVars>>

\* The response leaves for the browser; the instance is free for the next
\* request.
Return(i) ==
    /\ pc[i] = "done"
    /\ caller[i] = "form"
    /\ pc' = [pc EXCEPT ![i] = "idle"]
    /\ body' = [body EXCEPT ![i] = EmptyObj]
    /\ searchResults' = [searchResults EXCEPT ![i] = <<>>]
    /\ existingEntry' = [existingEntry EXCEPT ![i] = NoEntry]
    /\ matchedBy' = [matchedBy EXCEPT ![i] = "null"]
    /\ lookup' = [lookup EXCEPT ![i] = "none"]
    /\ method' = [method EXCEPT ![i] = ""]
    /\ calls' = [calls EXCEPT ![i] = <<>>]
    /\ res' = [res EXCEPT ![i] = NoRes]
    /\ UNCHANGED <<store, caller>>
    /\ UNCHANGED <<inflight, webhookVars>>

---------------------------------------------------------------------------
(* The Event Normalizer: api/webhook.js *)

NoFetch == [sent |-> FALSE]

\* Mutant: the webhook is refused only when email and phone both lack.
ContactMethodMissing(payload) ==
    \/ ~Has(payload, "investor")
    \/ /\ ~TruthyStr(payload["investor"], "email")
       /\ ~TruthyStr(payload["investor"], "phone_number")

\* if (!investor || !investor.email)
InvestorEmailMissing(payload) ==
    ~Has(payload, "investor") \/ ~TruthyStr(payload["investor"], "email")

\* Mutant: the phone number is copied only when the investor has one.
BasePayloadSkipsPhone(investor) ==
    LET np == PutIf(Has(investor, "email"),
                    [first_name |-> SeqOrEmpty(investor, "first_name"),
                     last_name |-> SeqOrEmpty(investor, "last_name"),
                     update_existing |-> TRUE],
                    "email", investor["email"])
    IN  PutIf(TruthyStr(investor, "phone_number"), np,
              "phone_number", investor["phone_number"])

\* Lines 51-57: the base payload.
\* (A key whose value is undefined is left out by JSON.stringify.)
BasePayload(investor) ==
    PutIf(Has(investor, "email"),
          [first_name |-> SeqOrEmpty(investor, "first_name"),
           last_name |-> SeqOrEmpty(investor, "last_name"),
           phone_number |-> StrOrEmpty(investor, "phone_number"),
           update_existing |-> TRUE],
          "email", investor["email"])

\* Lines 60-72: the deal object's fields.
DealFields(payload, np) ==
    IF ~Has(payload, "deal") THEN np
    ELSE LET deal == payload["deal"]
             p1 == PutIf(TruthyStr(deal, "security_type"), np,
                         "security_type_ecf26", deal["security_type"])
         IN  PutIf(Has(deal, "price_per_security"), p1,
                   "investor_price_ecf26", deal["price_per_security"])

\* Lines 77-117: the investor object's fields.
InvestorFields(investor, np) ==
    LET p1 == PutIf(Has(investor, "number_of_securities"), np,
                    "number_of_securities_ecf26",
                    investor["number_of_securities"])
        p2 == PutIf(Has(investor, "investment_amount"), p1,
                    "amount_dollars_ecf26", investor["investment_amount"])
        p3 == PutIf(Has(investor, "allocated_amount"), p2,
                    "total_amount_dollars_ecf26", investor["allocated_amount"])
        p4 == PutIf(TruthyStr(investor, "funding_state"), p3,
                    "funds_state_ecf26", investor["funding_state"])
        p5 == PutIf(TruthyStr(investor, "state"), p4,
                    "investor_state", investor["state"])
        p6 == PutIf(Has(investor, "promotional_marketing_consent"), p5,
                    "marketing_consent",
                    investor["promotional_marketing_consent"])
        p7 == PutIf(Has(investor, "promotional_marketing_consent"), p6,
                    "sms_consent", investor["promotional_marketing_consent"])
    IN  PutIf(TruthyStr(investor, "beneficial_address"), p7,
              "street_address", investor["beneficial_address"])

\* Mutant: a fee of zero is kept too.
AncillaryFeesNonNegative(investor, np) ==
    IF Has(investor, "allocated_amount") /\ Has(investor, "investment_amount")
    THEN LET calculatedFees ==
                 investor["allocated_amount"] - investor["investment_amount"]
         IN  PutIf(calculatedFees >= 0, np, "ancillary_fees_ecf26",
                   calculatedFees)
    ELSE np

\* Lines 122-128: ancillary fees = allocated_amount - investment_amount.
AncillaryFees(investor, np) ==
    IF Has(investor, "allocated_amount") /\ Has(investor, "investment_amount")
    THEN LET calculatedFees ==
                 investor["allocated_amount"] - investor["investment_amount"]
         IN  PutIf(calculatedFees > 0, np, "ancillary_fees_ecf26",
                   calculatedFees)
    ELSE np

\* Mutant: the funded event sets the flag and keeps the extracted state.
EventOverridesKeepState(event, np) ==
    CASE event = "investor.create" -> Put(np, "checkout2_started", TRUE)
      [] event = "investor.update" -> np
      [] event = "investor.signed" -> Put(np, "investor_state", "signed")
      [] event = "investor.funded" -> Put(np, "investor_funded_status", TRUE)
      [] event = "investor.accepted" -> Put(np, "investor_state", "accepted")
      [] OTHER -> np

\* Lines 148-185: the switch on the event label.
EventOverrides(event, np) ==
    CASE event = "investor.create" -> Put(np, "checkout2_started", TRUE)
      [] event = "investor.update" -> np
      [] event = "investor.signed" -> Put(np, "investor_state", "signed")
      [] event = "investor.funded" ->
            Put(Put(np, "investor_funded_status", TRUE),
                "investor_state", "funded")
      [] event = "investor.accepted" -> Put(np, "investor_state", "accepted")
      [] OTHER -> np

\* The notionPayload the handler hands to updateNotion.  (Lines 133-145
\* only log the bonus tags.)
Normalize(payload) ==
    LET investor == payload["investor"]
        event == IF Has(payload, "event") THEN payload["event"] ELSE "undefined"
    IN  EventOverrides(event,
          AncillaryFees(investor,
            InvestorFields(investor,
              DealFields(payload, BasePayload(investor)))))

WFinish(response) ==
    /\ wres' = response
    /\ wpc' = "done"

\* Lines 17-191: a webhook arrives; the handler runs to the fetch inside
\* updateNotion, or to an early return.
WebhookReceive ==
    /\ wpc = "idle"
    /\ inflight # <<>>
    /\ Head(inflight).to = "webhook"
    /\ LET m == Head(inflight).method
           payload == Head(inflight).body
       IN  /\ inflight' = Tail(inflight)
           /\ wmethod' = m
           /\ wreq' = payload
           /\ UNCHANGED fetchRes
           /\ IF m = "OPTIONS"
              THEN WFinish([status |-> 200]) /\ UNCHANGED <<fetchReq, wcalls>>
              ELSE IF m # "POST"
              THEN WFinish([status |-> 405,
                            error |-> "Method not allowed. Use POST."])
                   /\ UNCHANGED <<fetchReq, wcalls>>
              ELSE IF InvestorEmailMissing(payload)
              THEN WFinish([status |-> 400, error |-> "Missing investor email"])
                   /\ UNCHANGED <<fetchReq, wcalls>>
              ELSE /\ fetchReq' = [sent |-> TRUE, body |-> Normalize(payload)]
                   /\ wcalls' = Append(wcalls, Normalize(payload))
                   /\ wpc' = "awaiting"
                   /\ UNCHANGED wres
    /\ UNCHANGED <<store, upserterVars>>

\* The webhook's POST reaches an instance of the upserter.
FetchArrives(i) ==
    /\ fetchReq.sent
    /\ Receive(i, "POST", fetchReq.body, "webhook")
    /\ fetchReq' = NoFetch
    /\ UNCHANGED <<inflight, wpc, wmethod, wreq, wcalls, fetchRes, wres>>

\* The upserter's response leaves for the webhook handler.
ReturnToWebhook(i) ==
    /\ pc[i] = "done"
    /\ caller[i] = "webhook"
    /\ fetchRes' = res[i]
    /\ pc' = [pc EXCEPT ![i] = "idle"]
    /\ body' = [body EXCEPT ![i] = EmptyObj]
    /\ searchResults' = [searchResults EXCEPT ![i] = <<>>]
    /\ existingEntry' = [existingEntry EXCEPT ![i] = NoEntry]
    /\ matchedBy' = [matchedBy EXCEPT ![i] = "null"]
    /\ lookup' = [lookup EXCEPT ![i] = "none"]
    /\ method' = [method EXCEPT ![i] = ""]
    /\ calls' = [calls EXCEPT ![i] = <<>>]
    /\ res' = [res EXCEPT ![i] = NoRes]
    /\ UNCHANGED <<store, caller, inflight, wpc, wmethod, wreq, wcalls,
                   fetchReq, wres>>

\* Lines 232-239 and 193-210: the fetch answers; a response that is not ok
\* makes updateNotion throw, and the handler answers 500.
WebhookResume ==
    /\ wpc = "awaiting"
    /\ fetchRes.status # 0
    /\ fetchRes' = NoRes
    /\ IF fetchRes.status = 200
       THEN WFinish([status |-> 200,
                     event_type |-> IF Has(wreq, "event") THEN wreq["event"]
                                    ELSE "undefined",
                     notion_action |-> fetchRes.action,
                     notion_entry_id |-> fetchRes.entry_id])
       ELSE WFinish([status |-> 500, error |-> "Webhook processing failed"])
    /\ UNCHANGED <<store, upserterVars, inflight, wmethod, wreq, wcalls,
                   fetchReq>>

\* Lines 241-244 and 203-210: the fetch itself fails.
FetchThrows ==
    /\ wpc = "awaiting"
    /\ fetchReq.sent
    /\ fetchReq' = NoFetch
    /\ WFinish([status |-> 500, error |-> "Webhook processing failed"])
    /\ UNCHANGED <<store, upserterVars, inflight, wmethod, wreq, wcalls,
                   fetchRes>>

\* The webhook's response leaves; the handler is free for the next event.
WebhookReturn ==
    /\ wpc = "done"
    /\ wpc' = "idle"
    /\ wmethod' = ""
    /\ wreq' = EmptyObj
    /\ wcalls' = <<>>
    /\ wres' = NoRes
    /\ UNCHANGED <<store, upserterVars, inflight, fetchReq, fetchRes>>

---------------------------------------------------------------------------
(* Inputs *)

\* The objects with key k absent, or present with a value of vals.
Opt(k, vals) == {EmptyObj} \cup {k :> v : v \in vals}

Cross(A, B) == {a @@ b : a \in A, b \in B}

Methods == {"POST", "OPTIONS", "GET"}

\* Requests of a method with the bodies it is sent with.
Requests(to, bodies) ==
    {[to |-> to, method |-> "POST", body |-> b] : b \in bodies}
    \cup {[to |-> to, method |-> m, body |-> EmptyObj] :
            m \in Methods \ {"POST"}}

\* Bodies of the identity fields and the two resolution hints.
IdentityBodies ==
    Cross(Opt("email", {"", "a@x", "b@x"}),
    Cross(Opt("phone_number", {"", "555"}),
    Cross(Opt("entry_id", {1, 2}),
          Opt("update_existing", {TRUE, FALSE}))))

\* Bodies of two requests for one identity.
RaceBodies ==
    Cross(Opt("email", {"a@x"}),
    Cross(Opt("phone_number", {"555"}),
          Opt("update_existing", {TRUE})))

AmountValues ==
    {Num(0), Num(250), Str(<<>>), Str(<<"2", "5">>), Str(<<"x">>)}

\* Bodies of the form: identity, hints, names, amount, address, a trigger.
FormBodies ==
    Cross(Opt("email", {"a@x"}),
    Cross(Opt("phone_number", {"555"}),
    Cross(Opt("entry_id", {1}),
    Cross(Opt("update_existing", {TRUE}),
    Cross(Opt("first_name", {<<>>, <<"Ann">>}),
    Cross(Opt("last_name", {<<"Lee">>}),
    Cross(Opt("investment_amount", AmountValues),
    Cross(Opt("street_address", {"1 Main St"}),
    Cross(Opt("city", {"Paris"}),
          Opt("investor_funded_status", {TRUE, FALSE}))))))))))

\* Pages an earlier request has created.
SeedBodies ==
    {[email |-> "a@x", first_name |-> <<"Ann">>, last_name |-> <<"Lee">>,
      investment_amount |-> Num(250)]}

SeedStores == {<<>>} \cup {<<BuildProperties(b, 0)>> : b \in SeedBodies}

\* Amounts around zero, and the two amounts of the documented example.
Amounts == ((0 - MaxAmount)..MaxAmount) \cup {900, 1000}

Investors ==
    Cross(Opt("email", {"", "a@x"}),
    Cross(Opt("phone_number", {"555"}),
    Cross(Opt("state", {"invited"}),
    Cross(Opt("investment_amount", Amounts),
          Opt("allocated_amount", Amounts)))))

Events ==
    {"investor.create", "investor.update", "investor.signed",
     "investor.funded", "investor.accepted", "investor.deleted"}

Deals == {[security_type |-> "Common Stock", price_per_security |-> 10]}

WebhookPayloads ==
    Cross(Opt("event", Events),
    Cross(Opt("investor", Investors), Opt("deal", Deals)))

\* Bodies that seek an existing record: update_existing set, no entry_id,
\* any combination of email and phone number.
DedupBodies ==
    Cross(Opt("email", {"a@x", "b@x"}),
    Cross(Opt("phone_number", {"555"}), {[update_existing |-> TRUE]}))

\* Investors with each scalar field absent or present; the present values
\* include the falsy 0 and false.
FieldInvestors ==
    Cross({[email |-> "a@x"]},
    Cross(Opt("first_name", {<<"Ann">>}),
    Cross(Opt("last_name", {<<"Lee">>}),
    Cross(Opt("phone_number", {"555"}),
    Cross(Opt("number_of_securities", {0}),
    Cross(Opt("investment_amount", {0}),
    Cross(Opt("funding_state", {"funded"}),
    Cross(Opt("state", {"invited"}),
    Cross(Opt("promotional_marketing_consent", {FALSE}),
          Opt("beneficial_address", {"1 Main St"}))))))))))

FieldDeals ==
    Cross(Opt("security_type", {"Common Stock"}),
          Opt("price_per_security", {0}))

FieldPayloads ==
    Cross({[event |-> e] : e \in {"investor.update", "investor.signed"}},
    Cross({[investor |-> v] : v \in FieldInvestors}, Opt("deal", FieldDeals)))

\* Webhooks of a contact's lifetime, for two contacts; the contact object
\* may carry a field named as the funded flag, which the handler does not
\* read.
EventPayloads ==
    Cross({[event |-> e] :
             e \in {"investor.create", "investor.update", "investor.funded"}},
          {[investor |-> v] :
             v \in Cross(Opt("email", {"a@x", "b@x"}),
                         Opt("investor_funded_status", {FALSE}))})

---------------------------------------------------------------------------
(* Specifications *)

InitUpserter ==
    /\ pc = [i \in Invocations |-> "idle"]
    /\ method = [i \in Invocations |-> ""]
    /\ lookup = [i \in Invocations |-> "none"]
    /\ body = [i \in Invocations |-> EmptyObj]
    /\ searchResults = [i \in Invocations |-> <<>>]
    /\ existingEntry = [i \in Invocations |-> NoEntry]
    /\ matchedBy = [i \in Invocations |-> "null"]
    /\ calls = [i \in Invocations |-> <<>>]
    /\ res = [i \in Invocations |-> NoRes]
    /\ caller = [i \in Invocations |-> "form"]

InitWebhookHandler ==
    /\ wpc = "idle"
    /\ wmethod = ""
    /\ wreq = EmptyObj
    /\ wcalls = <<>>
    /\ fetchReq = NoFetch
    /\ fetchRes = NoRes
    /\ wres = NoRes

\* An empty store and free instances; the form's clients post at will.
Init ==
    /\ store = <<>>
    /\ inflight = <<>>
    /\ InitUpserter
    /\ InitWebhookHandler

\* No instance is handling a request.
Quiet == \A j \in Invocations : pc[j] = "idle"

\* A client posts to /api/save_to_notion and an instance takes the request.
Post(i, bodies) ==
    /\ \E r \in Requests("save_to_notion", bodies) :
          Receive(i, r.method, r.body, "form")
    /\ UNCHANGED <<inflight, webhookVars>>

\* Requests that arrive one after the other.
SequentialPost(i) == Quiet /\ Post(i, IdentityBodies)

\* Requests that arrive while another is being handled.
ConcurrentPost(i) == Post(i, RaceBodies)

\* A request in flight to /api/save_to_notion reaches an instance.
Deliver(i) ==
    /\ inflight # <<>>
    /\ Head(inflight).to = "save_to_notion"
    /\ Receive(i, Head(inflight).method, Head(inflight).body, "form")
    /\ inflight' = Tail(inflight)
    /\ UNCHANGED webhookVars

Step(i) ==
    \/ QueryReturns(i)
    \/ QueryThrows(i)
    \/ WriteReturns(i)
    \/ WriteThrows(i)

Next ==
    \E i \in Invocations :
        \/ SequentialPost(i)
        \/ Step(i)
        \/ Return(i)

Spec == Init /\ [][Next]_vars

\* The same handler under requests that overlap.
NextRace ==
    \E i \in Invocations :
        \/ ConcurrentPost(i)
        \/ Step(i)
        \/ Return(i)

SpecRace == Init /\ [][NextRace]_vars

\* One request of the form in flight, against a store that may already
\* hold a page.
InitForm ==
    /\ store \in SeedStores
    /\ inflight \in {<<r>> : r \in Requests("save_to_notion", FormBodies)}
    /\ InitUpserter
    /\ InitWebhookHandler

NextForm ==
    \E i \in Invocations :
        \/ Deliver(i)
        \/ Step(i)
        \/ Return(i)

SpecForm == InitForm /\ [][NextForm]_vars

\* One webhook in flight, against a store that may already hold a page.
InitWebhook ==
    /\ store \in SeedStores
    /\ inflight \in {<<r>> : r \in Requests("webhook", WebhookPayloads)}
    /\ InitUpserter
    /\ InitWebhookHandler

NextWebhook ==
    \/ WebhookReceive
    \/ FetchThrows
    \/ WebhookResume
    \/ WebhookReturn
    \/ \E i \in Invocations :
          \/ FetchArrives(i)
          \/ Step(i)
          \/ ReturnToWebhook(i)

SpecWebhook == InitWebhook /\ [][NextWebhook]_vars

\* Record-seeking requests that arrive one after the other and whose lookup
\* never fails.
DedupPost(i) == Quiet /\ Post(i, DedupBodies)

NextDedup ==
    \E i \in Invocations :
        \/ DedupPost(i)
        \/ QueryReturns(i)
        \/ WriteReturns(i)
        \/ WriteThrows(i)
        \/ Return(i)

SpecDedup == Init /\ [][NextDedup]_vars

\* One webhook in flight, of any combination of present and absent fields,
\* against an empty store.
InitFields ==
    /\ store = <<>>
    /\ inflight \in {<<r>> : r \in Requests("webhook", FieldPayloads)}
    /\ InitUpserter
    /\ InitWebhookHandler

SpecFields == InitFields /\ [][NextWebhook]_vars

\* The platform sends a webhook once the previous one has been answered.
WebhookSent ==
    /\ inflight = <<>>
    /\ wpc = "idle"
    /\ Quiet
    /\ ~fetchReq.sent
    /\ \E r \in Requests("webhook", EventPayloads) : inflight' = <<r>>
    /\ UNCHANGED <<store, upserterVars, webhookVars>>

NextEvents == WebhookSent \/ NextWebhook

\* Webhook after webhook, from the empty store.
SpecEvents == Init /\ [][NextEvents]_vars

---------------------------------------------------------------------------
(* Properties *)

\* A field that is absent or the empty string.
Lacks(obj, k) == ~Has(obj, k) \/ obj[k] = ""

LacksContact(b) == Lacks(b, "email") /\ Lacks(b, "phone_number")

Flagged(b, k) == Has(b, k) /\ b[k] = TRUE

\* Invocation i handles a POST with a contact method.
ValidPost(i) == method[i] = "POST" /\ ~LacksContact(body[i])

\* ... with update_existing set and no entry_id.
UpdateSeeking(i) ==
    /\ ValidPost(i)
    /\ Flagged(body[i], "update_existing")
    /\ ~Has(body[i], "entry_id")

CallsWithOp(i, op) == {n \in DOMAIN calls[i] : calls[i][n].op = op}

EmailOfPage(id, email) ==
    Has(store[id], "Email") /\ store[id]["Email"].email = email

\* C1: a POST body whose email and phone_number are both absent or empty is
\* answered 400, and the invocation issues no store call (no query, no
\* create, no update), whatever entry_id and update_existing are.
C1_NoContactRejected ==
    \A i \in Invocations :
        (method[i] = "POST" /\ LacksContact(body[i]))
            => /\ pc[i] = "done"
               /\ res[i].status = 400
               /\ calls[i] = <<>>

\* An empty email with both hints set has been answered 400.
C1_Witness ==
    \E i \in Invocations :
        /\ method[i] = "POST"
        /\ Has(body[i], "email") /\ body[i]["email"] = ""
        /\ ~Has(body[i], "phone_number")
        /\ Has(body[i], "entry_id")
        /\ Flagged(body[i], "update_existing")
        /\ res[i].status = 400

\* C3: with update_existing set, no entry_id and a lookup that returned at
\* least one record, the invocation issues exactly one pages.update, on the
\* id of the first returned record, and no pages.create.
C3_LookupHitUpdates ==
    \A i \in Invocations :
        (UpdateSeeking(i) /\ Len(searchResults[i]) > 0)
            => /\ Cardinality(CallsWithOp(i, "update")) = 1
               /\ CallsWithOp(i, "create") = {}
               /\ \A n \in CallsWithOp(i, "update") :
                     calls[i][n].page_id = searchResults[i][1].id

\* Two records matched, the store returned page 2 first, and page 2 was
\* updated.
C3_Witness ==
    \E i \in Invocations :
        /\ UpdateSeeking(i)
        /\ Len(searchResults[i]) = 2
        /\ searchResults[i][1].id = 2
        /\ res[i].status = 200
        /\ res[i].action = "updated"
        /\ res[i].entry_id = 2

\* C4: with update_existing set and no entry_id, a lookup that returned no
\* record or threw does not end the request: the invocation goes on to issue
\* exactly one pages.create and no pages.update.
C4_LookupMissCreates ==
    \A i \in Invocations :
        (UpdateSeeking(i) /\ lookup[i] \in {"miss", "threw"})
            => /\ pc[i] \in {"writing", "done"}
               /\ Cardinality(CallsWithOp(i, "create")) = 1
               /\ CallsWithOp(i, "update") = {}
               /\ calls[i][Len(calls[i])].op = "create"

\* The lookup threw although a record with the email existed, and a second
\* record was created.
C4_Witness ==
    \E i \in Invocations :
        /\ UpdateSeeking(i)
        /\ lookup[i] = "threw"
        /\ res[i].status = 200
        /\ res[i].action = "created"
        /\ Has(body[i], "email")
        /\ \E id \in PageIds :
              id # res[i].entry_id /\ EmailOfPage(id, body[i]["email"])

\* C5: with an entry_id and a contact method, the invocation's only store
\* call is a pages.update on that entry_id (no query, whatever
\* update_existing is); with neither entry_id nor update_existing, its only
\* store call is a pages.create.
C5_ExplicitIdSkipsLookup ==
    \A i \in Invocations :
        ValidPost(i) =>
            /\ Has(body[i], "entry_id")
                  => /\ Len(calls[i]) = 1
                     /\ calls[i][1].op = "update"
                     /\ calls[i][1].page_id = body[i]["entry_id"]
            /\ (~Has(body[i], "entry_id")
                  /\ ~Flagged(body[i], "update_existing"))
                  => /\ Len(calls[i]) = 1
                     /\ calls[i][1].op = "create"

\* entry_id 2 with update_existing set updated page 2, although page 1 holds
\* the request's email.
C5_Witness ==
    \E i \in Invocations :
        /\ ValidPost(i)
        /\ Has(body[i], "entry_id") /\ body[i]["entry_id"] = 2
        /\ Flagged(body[i], "update_existing")
        /\ Has(body[i], "email")
        /\ Len(store) = 2
        /\ EmailOfPage(1, body[i]["email"])
        /\ res[i].status = 200
        /\ res[i].action = "updated"
        /\ res[i].entry_id = 2

\* Invocation i looked up, found nothing, and its write succeeded.
MissedAndSaved(i) ==
    /\ UpdateSeeking(i)
    /\ lookup[i] = "miss"
    /\ pc[i] = "done"
    /\ res[i].status = 200

\* C6: two overlapping invocations for one identity, each with
\* update_existing set and no entry_id, whose lookups both found nothing,
\* both create: the store then holds two distinct records of that identity.
C6_RaceCreatesTwo ==
    \A i, j \in Invocations :
        (i # j /\ MissedAndSaved(i) /\ MissedAndSaved(j)
               /\ body[i] = body[j] /\ Has(body[i], "email"))
            => /\ res[i].action = "created"
               /\ res[j].action = "created"
               /\ res[i].entry_id # res[j].entry_id
               /\ \E p, q \in PageIds :
                     /\ p # q
                     /\ EmailOfPage(p, body[i]["email"])
                     /\ EmailOfPage(q, body[i]["email"])

\* From the empty store, both invocations have created a record for a@x.
C6_Witness ==
    /\ MissedAndSaved("inv1")
    /\ MissedAndSaved("inv2")
    /\ body["inv1"] = body["inv2"]
    /\ Has(body["inv1"], "email")
    /\ Len(store) = 2
    /\ EmailOfPage(1, body["inv1"]["email"])
    /\ EmailOfPage(2, body["inv1"]["email"])

\* The webhook handler has accepted a POST and posted to the upserter.
Accepted == wmethod = "POST" /\ Len(wcalls) > 0

\* The webhook has been answered 400 without a call to the upserter.
Rejected == wres.status = 400 /\ wcalls = <<>>

\* The statement of C2 as claimed: a POST webhook is rejected with 400, and
\* not forwarded, exactly when the contact object carries neither an email
\* nor a phone number.
C2_RejectedIffNoContact ==
    wmethod = "POST" =>
        (Rejected <=> (\/ ~Has(wreq, "investor")
                       \/ LacksContact(wreq["investor"])))

\* C2 (amended): a POST webhook is rejected with 400, and not forwarded,
\* exactly when the investor object is absent or its email is absent or
\* empty, whether or not it carries a phone number; any other POST webhook
\* is forwarded once, with the investor's email.
C2_RejectedIffNoEmail ==
    wmethod = "POST" =>
        /\ Rejected <=> (\/ ~Has(wreq, "investor")
                         \/ Lacks(wreq["investor"], "email"))
        /\ ~Rejected
              => /\ Len(wcalls) = 1
                 /\ Has(wcalls[1], "email")
                 /\ wcalls[1]["email"] = wreq["investor"]["email"]

\* A webhook with a phone number and no email has been rejected.
C2_Witness ==
    /\ wmethod = "POST"
    /\ Has(wreq, "investor")
    /\ ~Has(wreq["investor"], "email")
    /\ Has(wreq["investor"], "phone_number")
    /\ wreq["investor"]["phone_number"] = "555"
    /\ Rejected

\* The attribute of the request body each Notion property is written from.
PropertyAttributes ==
    [Name |-> {"first_name", "last_name"},
     Email |-> {"email"},
     Phone |-> {"phone_number"},
     Address |-> {"street_address", "unit2", "city", "region", "postal_code",
                  "country"},
     Amount |-> {"investment_amount"},
     Funded |-> {"investor_funded_status"}]

PropertyName ==
    [Name |-> "Name", Email |-> "Email", Phone |-> "Phone",
     Address |-> "Address", Amount |-> "Investment Amount",
     Funded |-> "investor_funded_status_ecf26"]

\* Property prop of the page is the same before and after the step.
Kept(before, after, prop) ==
    /\ Has(after, prop) <=> Has(before, prop)
    /\ Has(before, prop) => after[prop] = before[prop]

\* The statement of C7 as claimed: an update leaves every property of the
\* record unchanged whose attributes are all absent from the request body;
\* an update without first_name and last_name leaves the stored Name.
C7_PartialUpdateKeepsAbsent ==
    [][\A i \in Invocations :
          (/\ pc[i] = "writing" /\ pc'[i] = "done"
           /\ res'[i].status = 200 /\ res'[i].action = "updated")
          => \A f \in DOMAIN PropertyAttributes :
                (\A a \in PropertyAttributes[f] : ~Has(body[i], a))
                  => Kept(store[res'[i].entry_id], store'[res'[i].entry_id],
                          PropertyName[f])]_vars

\* C8: the body posted to the upserter holds ancillary_fees_ecf26 exactly
\* when allocated_amount and investment_amount are both present and their
\* difference is positive, and its value is then that difference (1000 and
\* 900 give 100).
C8_FeeDerivation ==
    Accepted =>
        LET investor == wreq["investor"]
            np == wcalls[1]
            both == Has(investor, "allocated_amount")
                    /\ Has(investor, "investment_amount")
        IN  /\ Has(np, "ancillary_fees_ecf26")
                <=> (both /\ investor["allocated_amount"]
                                - investor["investment_amount"] > 0)
            /\ Has(np, "ancillary_fees_ecf26")
                => np["ancillary_fees_ecf26"]
                     = investor["allocated_amount"]
                         - investor["investment_amount"]
            /\ (both /\ investor["allocated_amount"] = 1000
                     /\ investor["investment_amount"] = 900)
                => np["ancillary_fees_ecf26"] = 100

\* 1000 allocated and 900 invested were posted with a fee of 100.
C8_Witness ==
    /\ Accepted
    /\ Has(wreq["investor"], "allocated_amount")
    /\ Has(wreq["investor"], "investment_amount")
    /\ wreq["investor"]["allocated_amount"] = 1000
    /\ wreq["investor"]["investment_amount"] = 900
    /\ Has(wcalls[1], "ancillary_fees_ecf26")
    /\ wcalls[1]["ancillary_fees_ecf26"] = 100

\* C9: for an accepted investor.funded webhook, the body posted to the
\* upserter has investor_funded_status true and investor_state "funded",
\* whatever investor.state the contact object carried.
C9_FundedOverrides ==
    (Accepted /\ Has(wreq, "event") /\ wreq["event"] = "investor.funded")
        => /\ Has(wcalls[1], "investor_funded_status")
           /\ wcalls[1]["investor_funded_status"] = TRUE
           /\ Has(wcalls[1], "investor_state")
           /\ wcalls[1]["investor_state"] = "funded"

\* A funded webhook whose investor.state was "invited" was posted as funded.
C9_Witness ==
    /\ Accepted
    /\ Has(wreq, "event") /\ wreq["event"] = "investor.funded"
    /\ Has(wreq["investor"], "state")
    /\ wreq["investor"]["state"] = "invited"
    /\ wcalls[1]["investor_state"] = "funded"
    /\ wcalls[1]["investor_funded_status"] = TRUE

\* Invocation i has issued its write for a body of email and
\* investment_amount only.
MinimalBody(i) ==
    /\ method[i] = "POST"
    /\ DOMAIN body[i] = {"email", "investment_amount"}
    /\ calls[i] # <<>>

\* The statement of C10 as claimed: a body of email and investment_amount
\* only yields the properties Email, Investment Amount, Group and Last
\* Updated, and no other.
C10_MinimalPropertySet ==
    \A i \in Invocations :
        MinimalBody(i)
            => DOMAIN calls[i][Len(calls[i])].properties
                 = {"Email", "Investment Amount", "Group", "Last Updated"}

\* C10 (amended): a body of email and investment_amount only is a create,
\* and its properties are Name (titled 'No name provided'), Email, Created
\* At, Last Updated and Group, together with Investment Amount exactly when
\* the amount is neither 0 nor ''; the number is parseFloat of the amount.
C10_MinimalCreateSet ==
    \A i \in Invocations :
        MinimalBody(i) =>
            LET call == calls[i][Len(calls[i])]
                p == call.properties
                amount == body[i]["investment_amount"]
            IN  /\ call.op = "create"
                /\ DOMAIN p
                     = {"Name", "Email", "Created At", "Last Updated", "Group"}
                       \cup (IF amount \in {Num(0), Str(<<>>)} THEN {}
                             ELSE {"Investment Amount"})
                /\ p["Name"].title = <<"No name provided">>
                /\ p["Email"].email = body[i]["email"]
                /\ amount = Num(250)
                     => p["Investment Amount"].number = Num(250)
                /\ amount = Str(<<"2", "5">>)
                     => p["Investment Amount"].number = Num(25)
                /\ amount = Str(<<"x">>)
                     => p["Investment Amount"].number = NaN

\* A body of an email and the amount '25' has created a page whose
\* Investment Amount is 25.
C10_Witness ==
    \E i \in Invocations :
        /\ MinimalBody(i)
        /\ body[i]["investment_amount"] = Str(<<"2", "5">>)
        /\ res[i].status = 200
        /\ res[i].action = "created"
        /\ store[res[i].entry_id]["Investment Amount"].number = Num(25)
        /\ Has(store[res[i].entry_id], "Created At")

\* The store writes invocation i has issued.
Writes(i) == CallsWithOp(i, "update") \cup CallsWithOp(i, "create")

\* C11: every store write of an invocation carries Last Updated; it carries
\* Created At exactly when no target was resolved (no entry_id in the body
\* and no record taken from the lookup), which is exactly when the write is
\* a pages.create; a lookup that threw falls through to such a create.
C11_TimestampPolicy ==
    \A i \in Invocations :
        \A n \in Writes(i) :
            LET call == calls[i][n]
                untargeted == ~Has(body[i], "entry_id")
                              /\ lookup[i] # "hit"
            IN  /\ Has(call.properties, "Last Updated")
                /\ Has(call.properties, "Created At") <=> untargeted
                /\ untargeted <=> call.op = "create"
                /\ lookup[i] = "threw"
                     => /\ call.op = "create"
                        /\ Has(call.properties, "Created At")

\* A lookup threw while page 1 held the request's email; the request created
\* page 2, stamped with Created At and Last Updated.
C11_Witness ==
    \E i \in Invocations :
        /\ UpdateSeeking(i)
        /\ lookup[i] = "threw"
        /\ res[i].status = 200
        /\ res[i].action = "created"
        /\ res[i].entry_id = 2
        /\ Has(body[i], "email")
        /\ EmailOfPage(1, body[i]["email"])
        /\ Has(store[2], "Created At")
        /\ Has(store[2], "Last Updated")

\* Invocation i has answered with an update.
Updated(i) ==
    /\ pc[i] = "done" /\ method[i] = "POST"
    /\ res[i].status = 200 /\ res[i].action = "updated"

\* The record the lookup matched holds value v under identity property prop.
MatchedHolds(i, prop, field, v) ==
    /\ Has(existingEntry[i].properties, prop)
    /\ existingEntry[i].properties[prop][field] = v

\* C12: the response of an update that came from a lookup hit carries
\* matched_by 'email' or 'phone', never null, and the tag names a field the
\* request supplied and whose value the matched record holds; matched_by is
\* null only for an update whose target is the body's entry_id.
C12_MatchTag ==
    \A i \in Invocations :
        Updated(i) =>
            /\ lookup[i] = "hit"
                 => /\ res[i].matched_by \in {"email", "phone"}
                    /\ res[i].entry_id = existingEntry[i].id
                    /\ res[i].matched_by = "email"
                         => /\ ~Lacks(body[i], "email")
                            /\ MatchedHolds(i, "Email", "email",
                                            body[i]["email"])
                    /\ res[i].matched_by = "phone"
                         => /\ ~Lacks(body[i], "phone_number")
                            /\ MatchedHolds(i, "Phone", "phone_number",
                                            body[i]["phone_number"])
            /\ res[i].matched_by = "null"
                 => /\ lookup[i] = "none"
                    /\ Has(body[i], "entry_id")
                    /\ res[i].entry_id = body[i]["entry_id"]

\* A request with an email the record does not hold and the record's phone
\* number has updated the record, tagged 'phone'.
C12_Witness ==
    \E i \in Invocations :
        /\ Updated(i)
        /\ lookup[i] = "hit"
        /\ res[i].matched_by = "phone"
        /\ ~Lacks(body[i], "email")
        /\ Has(existingEntry[i].properties, "Email")
        /\ existingEntry[i].properties["Email"].email # body[i]["email"]
        /\ store[res[i].entry_id]["Email"].email = body[i]["email"]

\* The store property each key of the normalizer's attribute set stands for;
\* the keys that carry the deal's suffix are named as the store's
\* investor_state_ecf26 and investor_funded_status_ecf26 are.
ExternalProperty ==
    [email |-> "Email", first_name |-> "Name", last_name |-> "Name",
     phone_number |-> "Phone", street_address |-> "Address",
     investor_state |-> "investor_state_ecf26",
     marketing_consent |-> "Marketing Consent",
     sms_consent |-> "SMS Consent",
     checkout2_started |-> "action: checkout2_started_ecf26",
     investor_funded_status |-> "investor_funded_status_ecf26",
     security_type_ecf26 |-> "security_type_ecf26",
     investor_price_ecf26 |-> "investor_price_ecf26",
     number_of_securities_ecf26 |-> "number_of_securities_ecf26",
     amount_dollars_ecf26 |-> "amount_dollars_ecf26",
     total_amount_dollars_ecf26 |-> "total_amount_dollars_ecf26",
     ancillary_fees_ecf26 |-> "ancillary_fees_ecf26",
     funds_state_ecf26 |-> "funds_state_ecf26"]

\* The keys of an attribute set that carry data: all but the resolution hint
\* and a phone number defaulted to the empty string.
DataKeys(np) ==
    (DOMAIN np \ {"update_existing"})
        \ (IF Has(np, "phone_number") /\ np["phone_number"] = ""
           THEN {"phone_number"} ELSE {})

\* The statement of C13 as claimed: every key the normalizer has put in the
\* attribute set, the resolution hint apart, is read by the upserter and
\* written as its store property; none is dropped.
C13_EveryKeyMapped ==
    \A i \in Invocations :
        (caller[i] = "webhook" /\ method[i] = "POST" /\ Writes(i) # {}
            /\ Len(wcalls) > 0)
            => \A k \in DataKeys(wcalls[1]) :
                  /\ Has(body[i], k)
                  /\ \A n \in Writes(i) :
                        Has(calls[i][n].properties, ExternalProperty[k])

\* The investor's scalar fields the normalizer copies, and the keys it copies
\* them to.
CopiedInvestorFields ==
    {<<"number_of_securities", "number_of_securities_ecf26">>,
     <<"investment_amount", "amount_dollars_ecf26">>,
     <<"allocated_amount", "total_amount_dollars_ecf26">>,
     <<"funding_state", "funds_state_ecf26">>,
     <<"promotional_marketing_consent", "marketing_consent">>,
     <<"promotional_marketing_consent", "sms_consent">>,
     <<"beneficial_address", "street_address">>}

CopiedDealFields ==
    {<<"security_type", "security_type_ecf26">>,
     <<"price_per_security", "investor_price_ecf26">>}

\* The events whose handling sets investor_state by itself.
StateSettingEvents == {"investor.signed", "investor.funded", "investor.accepted"}

\* Every copied key of np but the names and the phone number is there only
\* with its source field, and holds that field's value.
CopiedOnlyWhenPresent(payload, np) ==
    LET investor == payload["investor"] IN
    /\ \A c \in CopiedInvestorFields :
          Has(np, c[2]) => Has(investor, c[1]) /\ np[c[2]] = investor[c[1]]
    /\ \A c \in CopiedDealFields :
          Has(np, c[2])
            => /\ Has(payload, "deal")
               /\ Has(payload["deal"], c[1])
               /\ np[c[2]] = payload["deal"][c[1]]
    /\ (Has(np, "investor_state") /\ payload["event"] \notin StateSettingEvents)
          => Has(investor, "state") /\ np["investor_state"] = investor["state"]

\* The statement of C14 as claimed: a scalar field absent from the contact
\* and deal objects has no key in the attribute set, first_name and
\* last_name apart; an absent phone number leaves no phone_number key.
C14_OnlyNamesDefaulted ==
    Accepted =>
        /\ CopiedOnlyWhenPresent(wreq, wcalls[1])
        /\ ~Has(wreq["investor"], "phone_number")
              => ~Has(wcalls[1], "phone_number")

\* C14 (amended): a scalar field absent from the contact and deal objects
\* has no key in the attribute set, except first_name, last_name and
\* phone_number: these three keys are always present, and hold the empty
\* string when the contact object lacks the field.
C14_NamesAndPhoneDefaulted ==
    Accepted =>
        LET investor == wreq["investor"]
            np == wcalls[1]
        IN  /\ CopiedOnlyWhenPresent(wreq, np)
            /\ {"first_name", "last_name", "phone_number"} \subseteq DOMAIN np
            /\ np["phone_number"]
                 = (IF Has(investor, "phone_number")
                    THEN investor["phone_number"] ELSE "")
            /\ np["first_name"]
                 = (IF Has(investor, "first_name")
                    THEN investor["first_name"] ELSE <<>>)
            /\ np["last_name"]
                 = (IF Has(investor, "last_name")
                    THEN investor["last_name"] ELSE <<>>)

\* A webhook of an email alone has been posted with the three defaults and
\* no other copied key.
C14_Witness ==
    /\ Accepted
    /\ DOMAIN wreq["investor"] = {"email"}
    /\ ~Has(wreq, "deal")
    /\ wreq["event"] = "investor.update"
    /\ DOMAIN wcalls[1]
         = {"email", "first_name", "last_name", "phone_number",
            "update_existing"}
    /\ wcalls[1]["phone_number"] = ""
    /\ wcalls[1]["first_name"] = <<>>

\* The statement of C15 as claimed: under requests handled one after the
\* other, each with update_existing set, no entry_id and a lookup that does
\* not fail, from the empty store, no two distinct records hold the same
\* email.
C15_NoDuplicateEmail ==
    \A p, q \in PageIds :
        (p # q /\ Has(store[p], "Email") /\ Has(store[q], "Email"))
            => store[p]["Email"].email # store[q]["Email"].email

FundedBox == "investor_funded_status_ecf26"

\* The record's funded checkbox is ticked.
FundedTicked(props) == Has(props, FundedBox) /\ props[FundedBox].checkbox = TRUE

\* The attribute set posted for the webhook at hand carries neither flag
\* with the value false.
NoFalseFlag ==
    Len(wcalls) > 0 =>
        \A k \in {"investor_funded_status", "checkout2_started"} :
            Has(wcalls[1], k) => wcalls[1][k] = TRUE

\* A write carries a flag's checkbox only when the body carries its key.
FlagOnlyFromKey ==
    \A i \in Invocations :
        \A n \in Writes(i) :
            /\ Has(calls[i][n].properties, FundedBox)
                 => Has(body[i], "investor_funded_status")
            /\ Has(calls[i][n].properties, "action: checkout2_started_ecf26")
                 => Has(body[i], "checkout2_started")

\* C16: on the webhook path the normalizer posts investor_funded_status and
\* checkout2_started only with the value true, the upserter writes their
\* checkboxes only when the key is in the body, and so no step of any
\* sequence of webhooks unticks the funded checkbox of a record.
C16_FundedMonotone ==
    [][/\ NoFalseFlag /\ NoFalseFlag'
       /\ FlagOnlyFromKey /\ FlagOnlyFromKey'
       /\ \A id \in PageIds :
             FundedTicked(store[id])
               => id \in DOMAIN store' /\ FundedTicked(store'[id])]_vars

\* After a funded webhook ticked page 1, an investor.update webhook of the
\* same contact, whose contact object says investor_funded_status false, has
\* updated page 1, and the checkbox is still ticked.
C16_Witness ==
    /\ wmethod = "POST"
    /\ wpc = "done"
    /\ wres.status = 200
    /\ wreq["event"] = "investor.update"
    /\ Has(wreq["investor"], "investor_funded_status")
    /\ wreq["investor"]["investor_funded_status"] = FALSE
    /\ wres.notion_action = "updated"
    /\ wres.notion_entry_id = 1
    /\ FundedTicked(store[1])

====
